---- MODULE Spec2Model ----
(***************************************************************************)
(* Model of the join-logger bot: the membership reconciler (pollWorker),   *)
(* the live join listener (guildMemberAdd), the notification scheduler     *)
(* (scheduleNotify / flushNotifyBuffer), the debounced persistence         *)
(* (loadPersistence / savePersistence) and the shutdown path               *)
(* (gracefulSaveAndExit).                                                  *)
(*                                                                         *)
(* The program runs on one event loop.  Each action below is one macrotask *)
(* of that loop: the code that runs from the resolution of one awaited     *)
(* external operation (roster fetch, file read/write, channel fetch, send) *)
(* or from one timer/event callback up to the next awaited external        *)
(* operation.  Awaits of the program's own async functions                 *)
(* (savePersistence, scheduleNotify) resolve in microtasks and therefore   *)
(* do not end a macrotask.                                                 *)
(*                                                                         *)
(* Time is in milliseconds and is kept relative to the current instant:    *)
(* an armed timer is the delay that remains until it fires, and a recorded *)
(* timestamp is its age Date.now() - timestamp.  Ages stop growing at      *)
(* notifyCooldownMs, beyond which the program cannot tell them apart.      *)
(* Timers fire when their delay has run out; the clock jumps from one      *)
(* instant at which something can change (a timer is due, a member's       *)
(* cooldown ends) to the next.  External operations settle in any order;   *)
(* each specification below says which of them may still be pending when   *)
(* the clock moves, how many users join while the program runs (MaxJoins)  *)
(* and how many ticks overlap.                                             *)
(***************************************************************************)
EXTENDS Integers, Sequences, FiniteSets, TLC

\* ------------------------------------------------------------------ bounds
NGuilds == 2
NMembers == 2
MaxWorkers == 2
\* users that join a guild while the program runs
MaxJoins == 1
\* Date.now() when the client became ready
Epoch == 1000000000

\* ------------------------------------------------------- program constants
notifyDebounceMs == 5000
notifyCooldownMs == 600000
saveDelayMs == 800
graceMs == 1000
pollRecencyMs == 5000
liveRecencyMs == 2000

Guilds == 1..NGuilds
Members == 1..NMembers

\* client.readyAt.getTime(): the client became ready at Epoch
ReadyAt == Epoch

\* joinedTimestamp of members that joined before the client became ready
\* (0: the member object carries no join timestamp)
OldStamps == {0, ReadyAt - pollRecencyMs - 1, ReadyAt - pollRecencyMs}

VARIABLES
  phase,          \* "starting" (ready handler awaiting the file read), "running", "exited"
  variant,        \* "batched": live joins go through scheduleNotify; "instant": sent at once
  file,           \* the persistence file
  knownMembers,   \* guildId -> Set(memberIds), a partial map
  lastNotified,   \* memberId -> timestamp, a partial map (held as the timestamp's age)
  notifyBuffer,   \* array of {guild, member}
  debounceTimer,  \* the handle kept in debounceTimer (that timer's remaining delay), -1: null
  debounceTimers, \* the armed debounce timers (their remaining delays)
  saveScheduled,
  saveTimers,     \* the armed 800ms save timers (their remaining delays)
  writes,         \* fs.writeFile calls in flight (their contents)
  exitTimers,     \* the armed grace timers of gracefulSaveAndExit
  workers,        \* the pollWorker invocations in progress
  dispatches,          \* dispatches in progress (flushNotifyBuffer, instant join log)
  roster,         \* platform: the members of each guild
  joined,         \* platform: joinedTimestamp of each member of each guild
  cache,          \* guild.members.cache
  events,         \* guildMemberAdd events not yet delivered
  calls,          \* history: the scheduleNotify calls
  flushed,        \* history: the flushes (time, batches by guild)
  sent,           \* history: the channel.send calls
  sinceAccepted,  \* history: per member, the time since scheduleNotify last accepted it
  sinceSent,      \* history: per member, the time since a message about it was last sent
  writeFailed,    \* history: a file write has failed
  atSignal,       \* history: knownMembers and save state when the first signal arrived
  sinceTick       \* history: per guild, who joined and whether anyone left since a tick
                  \* last compared the guild's memberCount with its known size

vars == <<phase, variant, file, knownMembers, lastNotified, notifyBuffer,
          debounceTimer, debounceTimers, saveScheduled, saveTimers, writes,
          exitTimers, workers, dispatches, roster, joined, cache, events, calls,
          flushed, sent, sinceAccepted, sinceSent, writeFailed, atSignal,
          sinceTick>>

platformVars == <<roster, joined, cache, events>>
notifyVars == <<lastNotified, notifyBuffer, debounceTimer, debounceTimers, calls,
               sinceAccepted>>
historyVars == <<flushed, sent, sinceSent, writeFailed, atSignal, sinceTick>>

\* ------------------------------------------------------------------ helpers
RECURSIVE SetToSeq(_)
\* the elements of a set of numbers in ascending order
SetToSeq(S) ==
  IF S = {} THEN <<>>
  ELSE LET x == CHOOSE y \in S : \A z \in S : y <= z
       IN <<x>> \o SetToSeq(S \ {x})

Range(s) == {s[i] : i \in 1..Len(s)}

RemoveAt(s, i) == [j \in 1..(Len(s) - 1) |-> IF j < i THEN s[j] ELSE s[j + 1]]

Min(S) == CHOOSE x \in S : \A y \in S : x <= y

NoEntries == [g \in {} |-> {}]

\* knownMembers[g] || new Set()
KnownOf(km, g) == IF g \in DOMAIN km THEN km[g] ELSE {}

\* if (!knownMembers[g]) knownMembers[g] = new Set();
EnsureEntry(km, g) ==
  IF g \in DOMAIN km THEN km ELSE [h \in DOMAIN km \cup {g} |-> KnownOf(km, h)]

\* a faulty add that replaces the set (C7 depends on add keeping the old members)
AddKnownOnly(km, g, S) == [km EXCEPT ![g] = S]

\* knownMembers[g].add(m) for every m of S (the entry exists)
AddKnown(km, g, S) == [km EXCEPT ![g] = @ \cup S]

\* guild.memberCount || 0
MemberCount(g) == Cardinality(roster[g])

\* --------------------------------------------------------------- persistence
\* a faulty dump that always takes the catch branch, dump[gid] = [] (C11 depends on
\* Array.from keeping the ids)
ArrayFromNone(S) == <<>>

\* Array.from(set): the ids of a set as a list
ArrayFrom(S) == SetToSeq(S)

\* the object savePersistence's timer callback serialises
Dump(km) == [g \in DOMAIN km |-> ArrayFrom(km[g])]

\* loadPersistence: what it returns and the knownMembers it leaves.  The file is
\* absent ("ENOENT"), unreadable or not parseable ("corrupt"), an object of lists
\* ("json"), or an object in which the records of the guilds in f.bad are numbers
\* ("misshapen"): there new Set(obj[guildId]) throws at the first such guild, after
\* the entries of the guilds before it (Object.keys order) have been assigned
LoadPersistence(f) ==
  IF f.kind = "json"
  THEN [existed |-> TRUE, km |-> [g \in DOMAIN f.data |-> Range(f.data[g])]]
  ELSE IF f.kind = "misshapen"
  THEN [existed |-> FALSE,
        km |-> [g \in {h \in DOMAIN f.data : \A b \in f.bad : h < b} |-> Range(f.data[g])]]
  ELSE [existed |-> FALSE, km |-> NoEntries]

\* a faulty savePersistence without its saveScheduled guard (C8 depends on the guard)
SavePersistenceAgain(s) == [scheduled |-> TRUE, timers |-> s.timers \cup {saveDelayMs}]

\* savePersistence() on the save state s = [scheduled, timers]
SavePersistence(s) ==
  IF s.scheduled THEN s
  ELSE [scheduled |-> TRUE, timers |-> s.timers \cup {saveDelayMs}]

SaveState == [scheduled |-> saveScheduled, timers |-> saveTimers]

SetSave(s) ==
  /\ saveScheduled' = s.scheduled
  /\ saveTimers' = s.timers

\* the 800ms timer callback up to its await of fs.writeFile
SaveTimerFire ==
  /\ phase # "exited"
  /\ 0 \in saveTimers
  /\ saveTimers' = saveTimers \ {0}
  /\ writes' = Append(writes, Dump(knownMembers))
  /\ UNCHANGED <<phase, variant, file, knownMembers, saveScheduled, exitTimers,
                 workers, dispatches>>
  /\ UNCHANGED <<platformVars, notifyVars, historyVars>>

\* a faulty timer callback without the finally: a failed write leaves saveScheduled
\* set (C22 depends on the flag being cleared on failure too)
WriteDoneStuck(i, ok) ==
  /\ phase # "exited"
  /\ i \in 1..Len(writes)
  /\ IF ok
       THEN /\ file' = [kind |-> "json", data |-> writes[i]]
            /\ saveScheduled' = FALSE
            /\ UNCHANGED writeFailed
       ELSE /\ file' \in {file, [kind |-> "corrupt", data |-> NoEntries]}
            /\ writeFailed' = TRUE
            /\ UNCHANGED saveScheduled
  /\ writes' = RemoveAt(writes, i)
  /\ UNCHANGED <<phase, variant, knownMembers, saveTimers, exitTimers, workers, dispatches>>
  /\ UNCHANGED <<platformVars, notifyVars, flushed, sent, sinceSent, atSignal, sinceTick>>

\* fs.writeFile settles: the rest of the timer callback (catch, finally)
WriteDone(i, ok) ==
  /\ phase # "exited"
  /\ i \in 1..Len(writes)
  /\ IF ok
       THEN /\ file' = [kind |-> "json", data |-> writes[i]]
            /\ UNCHANGED writeFailed
       ELSE /\ file' \in {file, [kind |-> "corrupt", data |-> NoEntries]}
            /\ writeFailed' = TRUE
  /\ writes' = RemoveAt(writes, i)
  /\ saveScheduled' = FALSE
  /\ UNCHANGED <<phase, variant, knownMembers, saveTimers, exitTimers, workers, dispatches>>
  /\ UNCHANGED <<platformVars, notifyVars, flushed, sent, sinceSent, atSignal, sinceTick>>

\* ----------------------------------------------------------------- scheduler
\* the scheduler's state as scheduleNotify reads and writes it
NotifyState ==
  [last |-> lastNotified, buf |-> notifyBuffer, timer |-> debounceTimer,
   armed |-> debounceTimers, calls |-> calls, since |-> sinceAccepted]

\* a faulty lookup under a key that holds the guild as well: the entry made for
\* another guild is not found (C24 depends on the key being the member id alone)
SinceNotifiedPerGuild(last, m) == Epoch

\* Date.now() - (lastNotified.get(member.id) || 0)
SinceNotified(last, m) == IF m \in DOMAIN last THEN last[m] ELSE Epoch

\* a faulty cooldown test that drops nothing (C2 depends on the test)
InCooldownNever(age) == FALSE

\* if (Date.now() - last < cfg.notifyCooldownMs) return;
InCooldown(age) == age < notifyCooldownMs

\* a faulty re-arming that clears the old timer and arms none (C17 depends on
\* setTimeout following every push)
RearmNever(armed, timer) == armed \ {timer}

\* a faulty re-arming that leaves the old timer armed (C4 depends on clearTimeout)
RearmKeep(armed, timer) == armed \cup {notifyDebounceMs}

\* clearTimeout(debounceTimer) followed by setTimeout(flush, cfg.notifyDebounceMs)
Rearm(armed, timer) == (armed \ {timer}) \cup {notifyDebounceMs}

\* a faulty scheduleNotify that stamps lastNotified before the cooldown test is
\* acted on (C20 depends on the early return coming first)
ScheduleNotifyStamp(n, m, g, path, stamp) ==
  LET drop == InCooldown(SinceNotified(n.last, m))
      call == [path |-> path, guild |-> g, member |-> m, stamp |-> stamp,
               accepted |-> ~drop, gap |-> n.since[m],
               quiet |-> Min({n.since[x] : x \in Members})]
      last == [x \in DOMAIN n.last \cup {m} |-> IF x = m THEN 0 ELSE n.last[x]]
  IN IF drop
       THEN [n EXCEPT !.calls = Append(@, call), !.last = last]
       ELSE [last |-> last,
             buf |-> Append(n.buf, [guild |-> g, member |-> m, call |-> Len(n.calls) + 1]),
             timer |-> notifyDebounceMs,
             armed |-> Rearm(n.armed, n.timer),
             calls |-> Append(n.calls, call),
             since |-> [n.since EXCEPT ![m] = 0]]

\* scheduleNotify(member, guild).  The call is logged with the path it came by, the
\* member's joinedTimestamp, the time since the member was last accepted (gap) and
\* the time since any member was last accepted (quiet)
ScheduleNotify(n, m, g, path, stamp) ==
  LET drop == InCooldown(SinceNotified(n.last, m))
      call == [path |-> path, guild |-> g, member |-> m, stamp |-> stamp,
               accepted |-> ~drop, gap |-> n.since[m],
               quiet |-> Min({n.since[x] : x \in Members})]
  IN IF drop
       THEN [n EXCEPT !.calls = Append(@, call)]
       ELSE [last |-> [x \in DOMAIN n.last \cup {m} |-> IF x = m THEN 0 ELSE n.last[x]],
             buf |-> Append(n.buf, [guild |-> g, member |-> m, call |-> Len(n.calls) + 1]),
             timer |-> notifyDebounceMs,
             armed |-> Rearm(n.armed, n.timer),
             calls |-> Append(n.calls, call),
             since |-> [n.since EXCEPT ![m] = 0]]

RECURSIVE ScheduleAll(_, _, _, _)
\* for (const m of realNew) await scheduleNotify(m, guild);
ScheduleAll(n, ms, g, stamps) ==
  IF ms = <<>> THEN n
  ELSE ScheduleAll(ScheduleNotify(n, Head(ms), g, "poll", stamps[Head(ms)]),
                   Tail(ms), g, stamps)

SetNotify(n) ==
  /\ lastNotified' = n.last
  /\ notifyBuffer' = n.buf
  /\ debounceTimer' = n.timer
  /\ debounceTimers' = n.armed
  /\ calls' = n.calls
  /\ sinceAccepted' = n.since

RECURSIVE ByGuild(_)
\* the Map flushNotifyBuffer builds: one entry per guild, in order of first appearance
ByGuild(buf) ==
  IF buf = <<>> THEN <<>>
  ELSE LET rest == ByGuild(SubSeq(buf, 1, Len(buf) - 1))
           item == buf[Len(buf)]
       IN IF \E i \in 1..Len(rest) : rest[i].guild = item.guild
            THEN [i \in 1..Len(rest) |->
                    IF rest[i].guild = item.guild
                      THEN [rest[i] EXCEPT !.members = Append(@, item.member)]
                      ELSE rest[i]]
            ELSE Append(rest, [guild |-> item.guild, members |-> <<item.member>>])

\* a faulty flush that leaves notifyBuffer as it is (C18 depends on the buffer
\* being emptied before the first await)
DebounceFireKeep ==
  /\ phase # "exited"
  /\ 0 \in debounceTimers
  /\ debounceTimers' = debounceTimers \ {0}
  /\ IF notifyBuffer = <<>>
       THEN UNCHANGED <<dispatches, flushed>>
       ELSE /\ dispatches' = Append(dispatches, [kind |-> "flush", todo |-> ByGuild(notifyBuffer),
                                       pc |-> "fetch", k |-> 1])
            /\ flushed' = Append(flushed,
                 [batches |-> ByGuild(notifyBuffer),
                  calls |-> {notifyBuffer[i].call : i \in 1..Len(notifyBuffer)},
                  quiet |-> Min({sinceAccepted[x] : x \in Members})])
  /\ UNCHANGED <<phase, variant, file, knownMembers, lastNotified, debounceTimer,
                 calls, sinceAccepted, saveScheduled, saveTimers, writes, exitTimers,
                 workers, notifyBuffer>>
  /\ UNCHANGED <<platformVars, sent, sinceSent, writeFailed, atSignal, sinceTick>>

\* the debounce timer callback: flushNotifyBuffer up to its first await.  The flush
\* is logged with the calls it took and the time since the last accepted call
DebounceFire ==
  /\ phase # "exited"
  /\ 0 \in debounceTimers
  /\ debounceTimers' = debounceTimers \ {0}
  /\ IF notifyBuffer = <<>>
       THEN UNCHANGED <<notifyBuffer, dispatches, flushed>>
       ELSE /\ notifyBuffer' = <<>>
            /\ dispatches' = Append(dispatches, [kind |-> "flush", todo |-> ByGuild(notifyBuffer),
                                       pc |-> "fetch", k |-> 1])
            /\ flushed' = Append(flushed,
                 [batches |-> ByGuild(notifyBuffer),
                  calls |-> {notifyBuffer[i].call : i \in 1..Len(notifyBuffer)},
                  quiet |-> Min({sinceAccepted[x] : x \in Members})])
  /\ UNCHANGED <<phase, variant, file, knownMembers, lastNotified, debounceTimer,
                 calls, sinceAccepted, saveScheduled, saveTimers, writes, exitTimers,
                 workers>>
  /\ UNCHANGED <<platformVars, sent, sinceSent, writeFailed, atSignal, sinceTick>>

\* ---------------------------------------------------------------- dispatcher
\* the dispatch after the batch at the head of its todo list is finished
NextBatch(job) == [job EXCEPT !.todo = Tail(@), !.pc = "fetch", !.k = 1]

Settle(i, job) ==
  IF job.todo = <<>> THEN RemoveAt(dispatches, i) ELSE [dispatches EXCEPT ![i] = job]

\* the members channel.send is called about: the whole batch (part_000), or the
\* k-th member of the batch (part_001 sends one formatted message per member)
Addressees(job) ==
  LET b == Head(job.todo)
  IN IF variant = "batched" THEN b.members ELSE <<b.members[job.k]>>

\* channel.send(...) is called by the dispatch: the message is logged with the shortest
\* time since a message about one of its members was last sent
Send(job) ==
  /\ sent' = Append(sent, [guild |-> Head(job.todo).guild, kind |-> job.kind,
                           members |-> Addressees(job),
                           gap |-> Min({sinceSent[m] : m \in Range(Addressees(job))})])
  /\ sinceSent' = [m \in Members |->
                     IF m \in Range(Addressees(job)) THEN 0 ELSE sinceSent[m]]

\* client.channels.fetch settles for dispatch i: "ok", "null" (no channel) or "throw"
ChannelFetched(i, outcome) ==
  /\ phase # "exited"
  /\ i \in 1..Len(dispatches)
  /\ dispatches[i].pc = "fetch"
  /\ IF outcome = "ok"
       THEN /\ dispatches' = [dispatches EXCEPT ![i].pc = "send"]
            /\ Send(dispatches[i])
       ELSE /\ dispatches' = Settle(i, NextBatch(dispatches[i]))
            /\ UNCHANGED <<sent, sinceSent>>
  /\ UNCHANGED <<phase, variant, file, knownMembers, saveScheduled, saveTimers,
                 writes, exitTimers, workers>>
  /\ UNCHANGED <<platformVars, notifyVars, flushed, writeFailed, atSignal, sinceTick>>

\* channel.send settles for dispatch i (resolved or thrown: both go on the same way)
SendDone(i) ==
  /\ phase # "exited"
  /\ i \in 1..Len(dispatches)
  /\ dispatches[i].pc = "send"
  /\ LET job == dispatches[i]
         more == variant = "instant" /\ job.k < Len(Head(job.todo).members)
     IN IF more
          THEN /\ dispatches' = [dispatches EXCEPT ![i].k = @ + 1]
               /\ Send([job EXCEPT !.k = @ + 1])
          ELSE /\ dispatches' = Settle(i, NextBatch(job))
               /\ UNCHANGED <<sent, sinceSent>>
  /\ UNCHANGED <<phase, variant, file, knownMembers, saveScheduled, saveTimers,
                 writes, exitTimers, workers>>
  /\ UNCHANGED <<platformVars, notifyVars, flushed, writeFailed, atSignal, sinceTick>>

\* ---------------------------------------------------------------- reconciler
\* a faulty diffNewMembers that forgets the known set (C1 depends on the filter)
DiffNewMembersAll(seen, fetched) == fetched

\* diffNewMembers: the fetched members that are not in the known set
DiffNewMembers(seen, fetched) == fetched \ seen

\* a faulty recency filter that lets every member through (C6 depends on the filter)
IsRealNewAny(stamp, startupTs) == TRUE

\* the filter of pollWorker: no join timestamp, or joined at or after startupTs - 5000
IsRealNew(stamp, startupTs) == stamp = 0 \/ stamp >= startupTs - pollRecencyMs

RECURSIVE PollScan(_, _)
\* the loop of pollWorker from guild i on, up to its next await: for each guild it
\* creates the missing entry and skips the guild when memberCount <= known size.
\* at: the guild whose roster fetch is awaited, 0 when the loop has ended
PollScan(km, i) ==
  IF i > NGuilds THEN [km |-> km, at |-> 0]
  ELSE LET km1 == EnsureEntry(km, i)
       IN IF MemberCount(i) <= Cardinality(km1[i])
            THEN PollScan(km1, i + 1)
            ELSE [km |-> km1, at |-> i]

Idle == [pc |-> "idle", at |-> 0]

NoChange == [g \in Guilds |-> [joins |-> {}, left |-> FALSE]]

\* the loop compared memberCount with the known size for the guilds from..at (to the
\* last guild when at = 0): what happened in them before belongs to an earlier tick
Compared(st, from, at) ==
  [g \in Guilds |-> IF g >= from /\ (at = 0 \/ g <= at) THEN NoChange[g] ELSE st[g]]

\* the interval timer calls pollWorker (also while earlier calls are still running)
PollStart(w) ==
  /\ phase = "running"
  /\ workers[w] = Idle
  /\ \A v \in 1..(w - 1) : workers[v] # Idle
  /\ LET r == PollScan(knownMembers, 1)
     IN /\ knownMembers' = r.km
        /\ workers' = [workers EXCEPT ![w] =
                         IF r.at = 0 THEN Idle ELSE [pc |-> "fetch", at |-> r.at]]
        /\ sinceTick' = Compared(sinceTick, 1, r.at)
  /\ UNCHANGED <<phase, variant, file, saveScheduled, saveTimers, writes,
                 exitTimers, dispatches>>
  /\ UNCHANGED <<platformVars, notifyVars, flushed, sent, sinceSent, writeFailed, atSignal>>

\* a faulty reconciliation that makes knownMembers[g] the fetched roster, forgetting
\* the members that left (C23 depends on known members staying known)
ReconcileSync(g, fetched) ==
  LET newMembers == DiffNewMembers(KnownOf(knownMembers, g), fetched)
      realNew == {m \in newMembers : IsRealNew(joined[g][m], ReadyAt)}
  IN IF newMembers = {}
       THEN [km |-> knownMembers, save |-> SaveState, notify |-> NotifyState]
       ELSE [km |-> [knownMembers EXCEPT ![g] = fetched],
             save |-> SavePersistence(SaveState),
             notify |-> ScheduleAll(NotifyState, SetToSeq(realNew), g, joined[g])]

\* pollWorker from the point where the roster of guild g is at hand (lines 151-167)
\* to the end of the loop body: the new knownMembers, save state and scheduler state
Reconcile(g, fetched) ==
  LET newMembers == DiffNewMembers(KnownOf(knownMembers, g), fetched)
      realNew == {m \in newMembers : IsRealNew(joined[g][m], ReadyAt)}
  IN IF newMembers = {}
       THEN [km |-> knownMembers, save |-> SaveState, notify |-> NotifyState]
       ELSE [km |-> AddKnown(knownMembers, g, newMembers),
             save |-> SavePersistence(SaveState),
             notify |-> ScheduleAll(NotifyState, SetToSeq(realNew), g, joined[g])]

\* a faulty pollWorker without the inner try: a failed fetch ends the tick (C21
\* depends on the fallback to the cache and on the loop going on)
FetchReturnAbort(w, ok) ==
  /\ phase = "running"
  /\ workers[w].pc = "fetch"
  /\ LET g == workers[w].at
         r == Reconcile(g, roster[g])
         scan == PollScan(r.km, g + 1)
     IN IF ok
          THEN /\ knownMembers' = scan.km
               /\ SetSave(r.save)
               /\ SetNotify(r.notify)
               /\ workers' = [workers EXCEPT ![w] =
                                IF scan.at = 0 THEN Idle ELSE [pc |-> "fetch", at |-> scan.at]]
               /\ cache' = [cache EXCEPT ![g] = roster[g]]
               /\ sinceTick' = Compared(sinceTick, g + 1, scan.at)
          ELSE /\ workers' = [workers EXCEPT ![w] = Idle]
               /\ UNCHANGED <<knownMembers, saveScheduled, saveTimers, notifyVars, cache,
                              sinceTick>>
  /\ UNCHANGED <<phase, variant, file, writes, exitTimers, dispatches, roster, joined,
                 events>>
  /\ UNCHANGED <<flushed, sent, sinceSent, writeFailed, atSignal>>

\* guild.members.fetch() of worker w settles (ok: the roster; not ok: it throws and
\* the cache is used); the loop body runs and the loop goes on to its next await
FetchReturn(w, ok) ==
  /\ phase = "running"
  /\ workers[w].pc = "fetch"
  /\ LET g == workers[w].at
         r == Reconcile(g, IF ok THEN roster[g] ELSE cache[g])
         scan == PollScan(r.km, g + 1)
     IN /\ knownMembers' = scan.km
        /\ SetSave(r.save)
        /\ SetNotify(r.notify)
        /\ workers' = [workers EXCEPT ![w] =
                         IF scan.at = 0 THEN Idle ELSE [pc |-> "fetch", at |-> scan.at]]
        /\ cache' = IF ok THEN [cache EXCEPT ![g] = roster[g]] ELSE cache
        /\ sinceTick' = Compared(sinceTick, g + 1, scan.at)
  /\ UNCHANGED <<phase, variant, file, writes, exitTimers, dispatches, roster, joined,
                 events>>
  /\ UNCHANGED <<flushed, sent, sinceSent, writeFailed, atSignal>>

\* the roster of worker w's guild is at hand and the loop body throws: at "diff"
\* before anything is added, at "notify" after the add and savePersistence and
\* before the first scheduleNotify.  The catch of the loop body logs it and the loop
\* goes on with the next guild
PollThrow(w, stage) ==
  /\ phase = "running"
  /\ workers[w].pc = "fetch"
  /\ LET g == workers[w].at
         r == Reconcile(g, roster[g])
         km == IF stage = "diff" THEN knownMembers ELSE r.km
         scan == PollScan(km, g + 1)
     IN /\ knownMembers' = scan.km
        /\ SetSave(IF stage = "diff" THEN SaveState ELSE r.save)
        /\ workers' = [workers EXCEPT ![w] =
                         IF scan.at = 0 THEN Idle ELSE [pc |-> "fetch", at |-> scan.at]]
        /\ cache' = [cache EXCEPT ![g] = roster[g]]
        /\ sinceTick' = Compared(sinceTick, g + 1, scan.at)
  /\ UNCHANGED <<phase, variant, file, writes, exitTimers, dispatches, roster, joined,
                 events>>
  /\ UNCHANGED <<notifyVars, flushed, sent, sinceSent, writeFailed, atSignal>>

\* ------------------------------------------------------------ live join listener
\* a faulty guard without the known test (C5 depends on the test)
LiveIgnoredStale(km, g, m, stamp) == stamp # 0 /\ ReadyAt # 0 /\ stamp < ReadyAt - liveRecencyMs

\* a faulty guard that ignores nothing (C15 depends on known members being ignored)
LiveIgnoredNever(km, g, m, stamp) == FALSE

\* a faulty guard that also ignores a join exactly 2s before ready (C14 depends on
\* the comparison being strict)
LiveIgnoredInclusive(km, g, m, stamp) ==
  \/ m \in KnownOf(km, g)
  \/ (stamp # 0 /\ ReadyAt # 0 /\ stamp <= ReadyAt - liveRecencyMs)

\* the guards of the guildMemberAdd handler: already known, or joined more than
\* 2s before the client became ready
LiveIgnored(km, g, m, stamp) ==
  \/ m \in KnownOf(km, g)
  \/ (stamp # 0 /\ ReadyAt # 0 /\ stamp < ReadyAt - liveRecencyMs)

\* a guildMemberAdd event is delivered: the client caches the member and, once the
\* ready handler has registered it, the handler runs up to its first external await
LiveJoin(g, m) ==
  /\ phase # "exited"
  /\ <<g, m>> \in events
  /\ events' = events \ {<<g, m>>}
  /\ cache' = [cache EXCEPT ![g] = @ \cup {m}]
  /\ IF phase # "running"
       THEN UNCHANGED <<knownMembers, saveScheduled, saveTimers, notifyVars, dispatches>>
       ELSE LET km1 == EnsureEntry(knownMembers, g)
            IN IF LiveIgnored(km1, g, m, joined[g][m])
                 THEN /\ knownMembers' = km1
                      /\ UNCHANGED <<saveScheduled, saveTimers, notifyVars, dispatches>>
                 ELSE /\ knownMembers' = AddKnown(km1, g, {m})
                      /\ SetSave(SavePersistence(SaveState))
                      /\ IF variant = "batched"
                           THEN /\ SetNotify(ScheduleNotify(NotifyState, m, g, "live",
                                                            joined[g][m]))
                                /\ UNCHANGED dispatches
                           ELSE /\ dispatches' = Append(dispatches,
                                      [kind |-> "instant", pc |-> "fetch", k |-> 1,
                                       todo |-> <<[guild |-> g, members |-> <<m>>]>>])
                                /\ UNCHANGED notifyVars
  /\ UNCHANGED <<phase, variant, file, writes, exitTimers, workers, roster, joined>>
  /\ UNCHANGED historyVars

\* ------------------------------------------------------------------- startup
\* step 2 of the ready handler: every guild gets an entry holding its cached members
Baseline(km) ==
  [g \in DOMAIN km \cup Guilds |->
     IF g \in Guilds THEN KnownOf(km, g) \cup cache[g] ELSE km[g]]

\* the ready handler from the settling of the file read to its end: load, baseline,
\* save, registration of the guildMemberAdd handler, start of the poll interval
ReadyHandler ==
  /\ phase = "starting"
  /\ LET loaded == LoadPersistence(file)
         merged == [g \in DOMAIN knownMembers \cup DOMAIN loaded.km |->
                      IF g \in DOMAIN loaded.km THEN loaded.km[g] ELSE knownMembers[g]]
     IN knownMembers' = Baseline(merged)
  /\ SetSave(SavePersistence(SaveState))
  /\ phase' = "running"
  /\ UNCHANGED <<variant, file, writes, exitTimers, workers, dispatches>>
  /\ UNCHANGED <<platformVars, notifyVars, historyVars>>

\* ------------------------------------------------------------------ shutdown
NoSignal == [seen |-> FALSE, known |-> NoEntries, writing |-> FALSE]

\* SIGINT, SIGTERM or an uncaught exception: gracefulSaveAndExit up to its await of
\* the 1000ms timer.  atSignal keeps what the first signal found
Signal ==
  /\ phase # "exited"
  /\ SetSave(SavePersistence(SaveState))
  /\ exitTimers' = exitTimers \cup {graceMs}
  /\ atSignal' = IF atSignal.seen THEN atSignal
                 ELSE [seen |-> TRUE, known |-> knownMembers, writing |-> writes # <<>>]
  /\ UNCHANGED <<phase, variant, file, knownMembers, writes, workers, dispatches>>
  /\ UNCHANGED <<platformVars, notifyVars, flushed, sent, sinceSent, writeFailed,
                 sinceTick>>

\* the grace timer fires: process.exit.  A write still in flight is cut off: the
\* file keeps its old content, holds the new content, or is left truncated
Exit ==
  /\ phase # "exited"
  /\ 0 \in exitTimers
  /\ phase' = "exited"
  /\ IF writes = <<>>
       THEN UNCHANGED file
       ELSE file' \in {file, [kind |-> "corrupt", data |-> NoEntries]}
                      \cup {[kind |-> "json", data |-> writes[i]] : i \in 1..Len(writes)}
  /\ UNCHANGED <<variant, knownMembers, saveScheduled, saveTimers, writes,
                 exitTimers, workers, dispatches>>
  /\ UNCHANGED <<platformVars, notifyVars, historyVars>>

\* ------------------------------------------------------------------ platform
\* a user joins guild g: the platform stamps the membership and emits guildMemberAdd.
\* The join happens at or after the moment the client became ready; the program
\* compares a join timestamp with readyAt - 5000 and readyAt - 2000 only, so every
\* such timestamp is held as ReadyAt
Join(g, m) ==
  /\ phase # "exited"
  /\ m \notin roster[g]
  /\ roster' = [roster EXCEPT ![g] = @ \cup {m}]
  /\ joined' = [joined EXCEPT ![g][m] = ReadyAt]
  /\ events' = events \cup {<<g, m>>}
  /\ sinceTick' = [sinceTick EXCEPT ![g].joins = @ \cup {m}]
  /\ UNCHANGED <<phase, variant, file, knownMembers, saveScheduled, saveTimers,
                 writes, exitTimers, workers, dispatches, cache>>
  /\ UNCHANGED <<notifyVars, flushed, sent, sinceSent, writeFailed, atSignal>>

\* a member leaves guild g (or is removed): the platform drops the membership and
\* the client drops the member from its cache; knownMembers is not told
Leave(g, m) ==
  /\ phase # "exited"
  /\ m \in roster[g]
  /\ roster' = [roster EXCEPT ![g] = @ \ {m}]
  /\ cache' = [cache EXCEPT ![g] = @ \ {m}]
  /\ sinceTick' = [sinceTick EXCEPT ![g].left = TRUE]
  /\ UNCHANGED <<phase, variant, file, knownMembers, saveScheduled, saveTimers,
                 writes, exitTimers, workers, dispatches, joined, events>>
  /\ UNCHANGED <<notifyVars, flushed, sent, sinceSent, writeFailed, atSignal>>

\* the client caches a member of guild g that another gateway event (a message, a
\* presence or member update) carries; knownMembers is not told
Seen(g, m) ==
  /\ phase # "exited"
  /\ m \in roster[g]
  /\ m \notin cache[g]
  /\ cache' = [cache EXCEPT ![g] = @ \cup {m}]
  /\ UNCHANGED <<phase, variant, file, knownMembers, saveScheduled, saveTimers,
                 writes, exitTimers, workers, dispatches, roster, joined, events>>
  /\ UNCHANGED <<notifyVars, historyVars>>

\* ---------------------------------------------------------------------- time
Delays == saveTimers \cup debounceTimers \cup exitTimers

CooldownLeft == {notifyCooldownMs - lastNotified[m] : m \in DOMAIN lastNotified}

\* an age after d more milliseconds
Older(age, d) == IF age + d > notifyCooldownMs THEN notifyCooldownMs ELSE age + d

\* d milliseconds pass: up to the next instant at which a timer is due or a cooldown
\* ends, and not past the instant at which an armed timer is due
Advance(d) ==
  /\ phase # "exited"
  /\ d > 0
  /\ \A e \in Delays : d <= e
  /\ saveTimers' = {e - d : e \in saveTimers}
  /\ debounceTimers' = {e - d : e \in debounceTimers}
  /\ exitTimers' = {e - d : e \in exitTimers}
  /\ debounceTimer' = IF debounceTimer > 0 THEN debounceTimer - d ELSE debounceTimer
  /\ lastNotified' = [m \in DOMAIN lastNotified |-> Older(lastNotified[m], d)]
  /\ sinceAccepted' = [m \in Members |-> Older(sinceAccepted[m], d)]
  /\ sinceSent' = [m \in Members |-> Older(sinceSent[m], d)]
  /\ UNCHANGED <<phase, variant, file, knownMembers, notifyBuffer, calls, saveScheduled,
                 writes, workers, dispatches, flushed, sent, writeFailed, atSignal,
                 sinceTick>>
  /\ UNCHANGED platformVars

\* --------------------------------------------------------------- the program
\* what the persistence file may hold at startup, beside being absent or corrupt
InitialStores == {NoEntries, [g \in {1} |-> {1}]}

InitialFiles ==
  {[kind |-> "ENOENT", data |-> NoEntries], [kind |-> "corrupt", data |-> NoEntries]}
    \cup {[kind |-> "json", data |-> Dump(km)] : km \in InitialStores}

\* the module-level state of the program when the ready handler starts
Boot ==
  /\ phase = "starting"
  /\ knownMembers = NoEntries
  /\ lastNotified = [m \in {} |-> 0]
  /\ notifyBuffer = <<>>
  /\ debounceTimer = -1
  /\ debounceTimers = {}
  /\ saveScheduled = FALSE
  /\ saveTimers = {}
  /\ writes = <<>>
  /\ exitTimers = {}
  /\ workers = [w \in 1..MaxWorkers |-> Idle]
  /\ dispatches = <<>>
  /\ events = {}
  /\ calls = <<>>
  /\ flushed = <<>>
  /\ sent = <<>>
  /\ sinceAccepted = [m \in Members |-> notifyCooldownMs]
  /\ sinceSent = [m \in Members |-> notifyCooldownMs]
  /\ writeFailed = FALSE
  /\ atSignal = NoSignal
  /\ sinceTick = NoChange

\* the guilds at startup: member 1 is in every guild of G, joined before the client
\* became ready; the client's cache holds some of these members
Platform(G) ==
  /\ roster = [g \in Guilds |-> IF g \in G THEN {1} ELSE {}]
  /\ joined \in [Guilds -> [Members -> OldStamps]]
  /\ \A g \in Guilds : \A m \in Members : m \notin roster[g] => joined[g][m] = 0
  /\ cache \in [Guilds -> SUBSET Members]
  /\ \A g \in Guilds : cache[g] \subseteq roster[g]

\* the joins since the client became ready (a member that left keeps its timestamp)
JoinsDone ==
  Cardinality({p \in Guilds \X Members : joined[p[1]][p[2]] = ReadyAt})

AllIdle == \A w \in 1..MaxWorkers : workers[w] = Idle

\* ---- the reconciler and the live listener (part_000), with overlapping ticks.
\* Guild 1 has a member from before startup, guild 2 is empty; roster fetches take
\* any time, channel operations and file writes settle before the clock moves
Init ==
  /\ Boot
  /\ variant = "batched"
  /\ file \in InitialFiles
  /\ Platform({1})

Next ==
  \/ ReadyHandler
  \/ \E w \in 1..MaxWorkers : PollStart(w)
  \/ \E w \in 1..MaxWorkers, ok \in BOOLEAN : FetchReturn(w, ok)
  \/ \E g \in Guilds, m \in Members : LiveJoin(g, m)
  \/ DebounceFire
  \/ \E i \in 1..Len(dispatches), o \in {"ok", "null", "throw"} : ChannelFetched(i, o)
  \/ \E i \in 1..Len(dispatches) : SendDone(i)
  \/ SaveTimerFire
  \/ \E i \in 1..Len(writes) : WriteDone(i, TRUE)
  \/ \E g \in Guilds, m \in Members : JoinsDone < MaxJoins /\ Join(g, m)
  \/ \E d \in Delays \cup CooldownLeft :
       dispatches = <<>> /\ writes = <<>> /\ Advance(d)

Spec == Init /\ [][Next]_vars

\* the clock moves once every pending channel operation and write has settled
TimePasses ==
  \E d \in Delays \cup CooldownLeft : dispatches = <<>> /\ writes = <<>> /\ Advance(d)

\* the same program while the process keeps running: the event loop runs every timer
\* that is due and every continuation whose promise settled, channel operations and
\* file writes settle, and time passes
SpecFair ==
  /\ Spec
  /\ WF_vars(DebounceFire)
  /\ WF_vars(SaveTimerFire)
  /\ WF_vars(\E i \in 1..Len(writes) : WriteDone(i, TRUE))
  /\ WF_vars(\E i \in 1..Len(dispatches), o \in {"ok", "null", "throw"} : ChannelFetched(i, o))
  /\ WF_vars(\E i \in 1..Len(dispatches) : SendDone(i))
  /\ WF_vars(TimePasses)

\* ---- the notification path of both variants, one tick at a time.  Member 1 is in
\* guild 1 and possibly in guild 2 from before startup and is not cached
InitNotify ==
  /\ Boot
  /\ variant \in {"batched", "instant"}
  /\ file = [kind |-> "ENOENT", data |-> NoEntries]
  /\ \E G \in {{1}, Guilds} : Platform(G)
  /\ cache = [g \in Guilds |-> {}]

NextNotify ==
  \/ ReadyHandler
  \/ PollStart(1)
  \/ \E ok \in BOOLEAN : FetchReturn(1, ok)
  \/ \E g \in Guilds, m \in Members : LiveJoin(g, m)
  \/ DebounceFire
  \/ \E i \in 1..Len(dispatches), o \in {"ok", "null", "throw"} : ChannelFetched(i, o)
  \/ \E i \in 1..Len(dispatches) : SendDone(i)
  \/ SaveTimerFire
  \/ \E i \in 1..Len(writes) : WriteDone(i, TRUE)
  \/ \E g \in Guilds, m \in Members : JoinsDone < MaxJoins /\ Join(g, m)
  \/ \E d \in Delays \cup CooldownLeft :
       dispatches = <<>> /\ writes = <<>> /\ Advance(d)

SpecNotify == InitNotify /\ [][NextNotify]_vars

\* ---- persistence and shutdown (part_000), one tick at a time.  File writes take
\* any time and may fail, signals arrive at any moment; roster fetches and channel
\* operations settle before the clock moves
InitSave ==
  /\ Boot
  /\ variant = "batched"
  /\ file \in InitialFiles
  /\ Platform({1})
  /\ cache = [g \in Guilds |-> {}]
  /\ joined[1][1] = 0

NextSave ==
  \/ ReadyHandler
  \/ PollStart(1)
  \/ \E ok \in BOOLEAN : FetchReturn(1, ok)
  \/ \E g \in Guilds, m \in Members : LiveJoin(g, m)
  \/ DebounceFire
  \/ \E i \in 1..Len(dispatches), o \in {"ok", "null", "throw"} : ChannelFetched(i, o)
  \/ \E i \in 1..Len(dispatches) : SendDone(i)
  \/ SaveTimerFire
  \/ \E i \in 1..Len(writes), ok \in BOOLEAN : WriteDone(i, ok)
  \/ Signal
  \/ Exit
  \/ \E g \in Guilds, m \in Members : JoinsDone < MaxJoins /\ Join(g, m)
  \/ \E d \in Delays \cup CooldownLeft :
       dispatches = <<>> /\ AllIdle /\ Advance(d)

SpecSave == InitSave /\ [][NextSave]_vars

\* ---- the live listener alone (part_000 and part_001): no tick runs.  Guild 1 has
\* both members from before startup, with join timestamps around readyAt - 2000 or
\* none; the platform replays guildMemberAdd for them when the session resumes
LiveStamps == {0, ReadyAt - liveRecencyMs - 1, ReadyAt - liveRecencyMs}

\* guildMemberAdd is emitted again for a member that is in the guild already
Replay(g, m) ==
  /\ phase # "exited"
  /\ m \in roster[g]
  /\ <<g, m>> \notin events
  /\ events' = events \cup {<<g, m>>}
  /\ UNCHANGED <<phase, variant, file, knownMembers, saveScheduled, saveTimers,
                 writes, exitTimers, workers, dispatches, roster, joined, cache>>
  /\ UNCHANGED <<notifyVars, historyVars>>

InitLive ==
  /\ Boot
  /\ variant \in {"batched", "instant"}
  /\ file = [kind |-> "ENOENT", data |-> NoEntries]
  /\ roster = [g \in Guilds |-> IF g = 1 THEN Members ELSE {}]
  /\ joined \in [Guilds -> [Members -> LiveStamps]]
  /\ \A g \in Guilds : \A m \in Members : m \notin roster[g] => joined[g][m] = 0
  /\ \E c \in SUBSET {1} : cache = [g \in Guilds |-> IF g = 1 THEN c ELSE {}]

NextLive ==
  \/ ReadyHandler
  \/ \E g \in Guilds, m \in Members : Replay(g, m)
  \/ \E g \in Guilds, m \in Members : JoinsDone < MaxJoins /\ Join(g, m)
  \/ \E g \in Guilds, m \in Members : LiveJoin(g, m)
  \/ DebounceFire
  \/ \E i \in 1..Len(dispatches), o \in {"ok", "null", "throw"} : ChannelFetched(i, o)
  \/ \E i \in 1..Len(dispatches) : SendDone(i)
  \/ SaveTimerFire
  \/ \E i \in 1..Len(writes) : WriteDone(i, TRUE)
  \/ \E d \in Delays :
       dispatches = <<>> /\ writes = <<>> /\ events = {} /\ Advance(d)

SpecLive == InitLive /\ [][NextLive]_vars

\* ---- one tick at a time over two guilds whose roster fetch may fail and whose
\* loop body may throw (part_000).  Member 1 is in both guilds from before startup;
\* some members are cached
InitPoll ==
  /\ Boot
  /\ variant = "batched"
  /\ file = [kind |-> "ENOENT", data |-> NoEntries]
  /\ Platform(Guilds)

NextPoll ==
  \/ ReadyHandler
  \/ PollStart(1)
  \/ \E ok \in BOOLEAN : FetchReturn(1, ok)
  \/ \E stage \in {"diff", "notify"} : PollThrow(1, stage)
  \/ \E g \in Guilds, m \in Members : Seen(g, m)
  \/ \E g \in Guilds, m \in Members : LiveJoin(g, m)
  \/ DebounceFire
  \/ \E i \in 1..Len(dispatches) : ChannelFetched(i, "ok")
  \/ \E i \in 1..Len(dispatches) : SendDone(i)
  \/ SaveTimerFire
  \/ \E i \in 1..Len(writes) : WriteDone(i, TRUE)
  \/ \E g \in Guilds, m \in Members : JoinsDone < MaxJoins /\ Join(g, m)
  \/ \E d \in Delays \cup CooldownLeft :
       dispatches = <<>> /\ writes = <<>> /\ AllIdle /\ Advance(d)

SpecPoll == InitPoll /\ [][NextPoll]_vars

\* ---- the reconciler with members that leave (part_000), one tick at a time.  The
\* members present at startup are cached; channel operations succeed and writes
\* settle before the clock moves
InitLeave ==
  /\ Boot
  /\ variant = "batched"
  /\ file = [kind |-> "ENOENT", data |-> NoEntries]
  /\ Platform({1})
  /\ cache = roster

NextLeave ==
  \/ ReadyHandler
  \/ PollStart(1)
  \/ \E ok \in BOOLEAN : FetchReturn(1, ok)
  \/ \E g \in Guilds, m \in Members : LiveJoin(g, m)
  \/ DebounceFire
  \/ \E i \in 1..Len(dispatches) : ChannelFetched(i, "ok")
  \/ \E i \in 1..Len(dispatches) : SendDone(i)
  \/ SaveTimerFire
  \/ \E i \in 1..Len(writes) : WriteDone(i, TRUE)
  \/ \E g \in Guilds, m \in Members : JoinsDone < MaxJoins /\ Join(g, m)
  \/ \E g \in Guilds, m \in Members : Leave(g, m)
  \/ \E d \in Delays \cup CooldownLeft :
       dispatches = <<>> /\ writes = <<>> /\ AllIdle /\ Advance(d)

SpecLeave == InitLeave /\ [][NextLeave]_vars

\* ---- the same, where the member present at startup need not be cached and a
\* member that joined and left may join again any number of times
InitRejoin ==
  /\ Boot
  /\ variant = "batched"
  /\ file = [kind |-> "ENOENT", data |-> NoEntries]
  /\ Platform({1})

NextRejoin ==
  \/ ReadyHandler
  \/ PollStart(1)
  \/ \E ok \in BOOLEAN : FetchReturn(1, ok)
  \/ \E g \in Guilds, m \in Members : LiveJoin(g, m)
  \/ DebounceFire
  \/ \E i \in 1..Len(dispatches) : ChannelFetched(i, "ok")
  \/ \E i \in 1..Len(dispatches) : SendDone(i)
  \/ SaveTimerFire
  \/ \E i \in 1..Len(writes) : WriteDone(i, TRUE)
  \/ \E g \in Guilds, m \in Members :
       (JoinsDone < MaxJoins \/ joined[g][m] = ReadyAt) /\ Join(g, m)
  \/ \E g \in Guilds, m \in Members : Leave(g, m)
  \/ \E d \in Delays \cup CooldownLeft :
       dispatches = <<>> /\ writes = <<>> /\ AllIdle /\ Advance(d)

SpecRejoin == InitRejoin /\ [][NextRejoin]_vars

\* ---- the persistence file across two runs of the program (part_000).  Every member
\* is cached at startup, nobody joins, no tick runs; writes succeed and settle
\* before the process exits; one signal ends a run and the process is started again
AllStores == UNION {[D -> SUBSET Members] : D \in SUBSET Guilds}

\* parseable files of the wrong shape: the record of one guild is a number
MisshapenFiles ==
  {[kind |-> "misshapen", data |-> Dump([g \in Guilds |-> {1}]), bad |-> {b}] : b \in Guilds}

StoreFiles ==
  {[kind |-> "ENOENT", data |-> NoEntries], [kind |-> "corrupt", data |-> NoEntries]}
    \cup {[kind |-> "json", data |-> Dump(km)] : km \in AllStores}
    \cup MisshapenFiles

\* the process is started again after it exited: the module state is as at load, the
\* file is what the last run left; events not delivered are lost
Restart ==
  /\ phase = "exited"
  /\ phase' = "starting"
  /\ knownMembers' = NoEntries
  /\ lastNotified' = [m \in {} |-> 0]
  /\ notifyBuffer' = <<>>
  /\ debounceTimer' = -1
  /\ debounceTimers' = {}
  /\ saveScheduled' = FALSE
  /\ saveTimers' = {}
  /\ writes' = <<>>
  /\ exitTimers' = {}
  /\ workers' = [w \in 1..MaxWorkers |-> Idle]
  /\ dispatches' = <<>>
  /\ events' = {}
  /\ UNCHANGED <<variant, file, roster, joined, cache, calls, flushed, sent,
                 sinceAccepted, sinceSent, writeFailed, atSignal, sinceTick>>

\* the program runs for the second time
Restarted == atSignal.seen /\ exitTimers = {}

InitStore ==
  /\ Boot
  /\ variant = "batched"
  /\ file \in StoreFiles
  /\ roster \in [Guilds -> SUBSET Members]
  /\ cache = roster
  /\ joined = [g \in Guilds |-> [m \in Members |-> 0]]

NextStore ==
  \/ ReadyHandler
  \/ SaveTimerFire
  \/ \E i \in 1..Len(writes) : WriteDone(i, TRUE)
  \/ (phase = "running" /\ ~atSignal.seen /\ Signal)
  \/ (writes = <<>> /\ Exit)
  \/ Restart
  \/ \E d \in Delays : Advance(d)

SpecStore == InitStore /\ [][NextStore]_vars

\* -------------------------------------------------------------------- claims
\* the scheduleNotify calls made for member m of guild g (their places in the log)
CallsFor(g, m) == {i \in 1..Len(calls) : calls[i].guild = g /\ calls[i].member = m}

Accepted == {i \in 1..Len(calls) : calls[i].accepted}

\* the accepted calls that wait in notifyBuffer
Buffered == {notifyBuffer[k].call : k \in 1..Len(notifyBuffer)}

\* the flushes that took call i
FlushOf(i) == {k \in 1..Len(flushed) : i \in flushed[k].calls}

\* user m joined guild g after the client became ready
RealJoin(g, m) == m \in roster[g] /\ joined[g][m] = ReadyAt

\* the persistence file holds member m of guild g
InFile(g, m) == file.kind = "json" /\ g \in DOMAIN file.data /\ m \in Range(file.data[g])

\* C1: once M is in knownMembers[G], no reconciler tick forwards M: every
\* scheduleNotify call that a step makes on the poll path is for a member that was
\* not in knownMembers of its guild when the step began, under every interleaving
\* of (overlapping) ticks and live join events
C1_KnownNeverForwarded ==
  [][\A i \in (Len(calls) + 1)..Len(calls') :
       calls'[i].path = "poll"
         => calls'[i].member \notin KnownOf(knownMembers, calls'[i].guild)]_vars

\* a tick forwarded a member of a guild in which another member, forwarded at an
\* earlier moment and so known by then, was on the roster again
C1_Witness ==
  \E i, j \in 1..Len(calls) :
    /\ i < j
    /\ calls[i].guild = calls[j].guild
    /\ calls[i].member # calls[j].member
    /\ calls[i].accepted
    /\ calls[j].path = "poll"
    /\ calls[j].quiet > 0
    /\ calls[j].quiet < notifyCooldownMs
    /\ calls[i].member \in roster[calls[i].guild]
    /\ CallsFor(calls[i].guild, calls[i].member) = {i}

\* C2: a scheduleNotify call for M is accepted exactly when at least the cooldown
\* window has passed since the last accepted call for M (or none was accepted yet),
\* so of two calls for M less than a window apart at most one is accepted; and the
\* accepted calls are exactly those put in notifyBuffer, there until a flush takes them
C2_CooldownDecides ==
  /\ \A i \in 1..Len(calls) : calls[i].accepted <=> calls[i].gap >= notifyCooldownMs
  /\ \A i \in 1..Len(calls) : calls[i].accepted <=> (i \in Buffered \/ FlushOf(i) # {})

\* member M was accepted and, later but within the window, offered again and dropped
C2_Witness ==
  \E i, j \in 1..Len(calls) :
    /\ i < j
    /\ calls[i].member = calls[j].member
    /\ calls[i].accepted
    /\ ~calls[j].accepted
    /\ calls[j].gap > 0
    /\ calls[j].gap < notifyCooldownMs

\* C3: by whatever path a message is dispatched, in both variants, no member is the
\* subject of two messages sent less than the cooldown window apart
C3_OnePerWindow ==
  \A k \in 1..Len(sent) : sent[k].gap >= notifyCooldownMs

\* C4: a flush happens only when the debounce window has passed since the last
\* accepted call; every accepted call is taken by exactly one flush or still waits in
\* notifyBuffer with a timer armed; two consecutive accepted calls less than the
\* debounce window apart are taken by the same flush; and a flush hands over every
\* call it took, one batch per guild
C4_DebounceBatches ==
  /\ \A k \in 1..Len(flushed) : flushed[k].quiet >= notifyDebounceMs
  /\ \A i \in Accepted :
       Cardinality(FlushOf(i)) + (IF i \in Buffered THEN 1 ELSE 0) = 1
  /\ notifyBuffer # <<>> => debounceTimers # {}
  /\ \A i, j \in Accepted :
       (/\ i < j
        /\ \A p \in Accepted : ~(i < p /\ p < j)
        /\ calls[j].quiet < notifyDebounceMs)
         => FlushOf(i) = FlushOf(j)
  /\ \A k \in 1..Len(flushed) :
       LET b == flushed[k].batches
           handed == {<<a, x>> : a \in 1..Len(b), x \in 1..NMembers * NGuilds}
           slots == {p \in handed : p[2] <= Len(b[p[1]].members)}
       IN /\ \A a, c \in 1..Len(b) : a # c => b[a].guild # b[c].guild
          /\ Cardinality(slots) = Cardinality(flushed[k].calls)
          /\ {<<b[p[1]].guild, b[p[1]].members[p[2]]>> : p \in slots}
               = {<<calls[i].guild, calls[i].member>> : i \in flushed[k].calls}

\* one flush took two calls accepted at different moments within the debounce
\* window and handed them over as two guild batches
C4_Witness ==
  \E k \in 1..Len(flushed) :
    /\ Cardinality(flushed[k].calls) >= 2
    /\ Len(flushed[k].batches) = 2
    /\ \E i \in flushed[k].calls : calls[i].quiet > 0 /\ calls[i].quiet < notifyDebounceMs

\* every call so far was for member m of guild g
OnlyAbout(g, m) == \A i \in 1..Len(calls) : calls[i].guild = g /\ calls[i].member = m

\* what holds of a real join of m into g in every state
OneJoinOneDispatch(g, m) ==
  /\ Cardinality(CallsFor(g, m)) <= 1
  /\ OnlyAbout(g, m) =>
       /\ \A i \in 1..Len(calls) : calls[i].accepted
       /\ Len(flushed) <= 1
       /\ Len(sent) <= 1
       /\ \A k \in 1..Len(flushed) :
            flushed[k].batches = <<[guild |-> g, members |-> <<m>>]>>
       /\ \A k \in 1..Len(sent) : sent[k].guild = g /\ sent[k].members = <<m>>
       /\ (calls # <<>> /\ flushed = <<>>) =>
            (Len(notifyBuffer) = 1 /\ debounceTimers # {})

\* C5: a real join of M into G, seen by the live listener and by reconciler ticks in
\* any interleaving: the step that makes M known (one step: test and insertion are
\* not separated) makes the one scheduleNotify call there ever is for (G, M); and
\* with no call for anybody else that call is accepted, at most one flush and one
\* message follow, and they list exactly M for G
C5_ExactlyOnce ==
  [][\A g \in Guilds, m \in Members :
       /\ (/\ phase = "running"
           /\ RealJoin(g, m)
           /\ m \notin KnownOf(knownMembers, g)
           /\ m \in KnownOf(knownMembers', g))
            => (CallsFor(g, m) = {} /\ Cardinality(CallsFor(g, m)') = 1)
       /\ RealJoin(g, m)' => OneJoinOneDispatch(g, m)']_vars

\* the join was forwarded by a tick, the live event came after it, and the one
\* message listing the member has been sent
C5_Witness ==
  \E g \in Guilds, m \in Members :
    /\ RealJoin(g, m)
    /\ <<g, m>> \notin events
    /\ Len(calls) = 1
    /\ CallsFor(g, m) = {1}
    /\ calls[1].path = "poll"
    /\ Len(sent) = 1
    /\ sent[1].members = <<m>>
    /\ \E w \in 1..MaxWorkers : workers[w].pc = "fetch"

\* C6: the step in which a tick has the roster F of guild G at hand adds every member
\* of F to knownMembers[G] and forwards, of those that were not known, exactly the
\* ones with no join timestamp or one at or after readyAt - 5000; no member that
\* joined earlier is ever forwarded by a tick
C6_TickAddsAllForwardsRecent ==
  [][LET made == (Len(calls) + 1)..Len(calls')
     IN /\ \A w \in 1..MaxWorkers :
             (workers[w].pc = "fetch" /\ workers'[w] # workers[w]) =>
               LET g == workers[w].at
               IN \E F \in {roster[g], cache[g]} :
                    LET new == F \ KnownOf(knownMembers, g)
                        fwd == {m \in new : joined[g][m] = 0
                                              \/ joined[g][m] >= ReadyAt - pollRecencyMs}
                    IN /\ KnownOf(knownMembers', g) = KnownOf(knownMembers, g) \cup F
                       /\ Cardinality(made) = Cardinality(fwd)
                       /\ {calls'[i].member : i \in made} = fwd
                       /\ \A i \in made : calls'[i].guild = g /\ calls'[i].path = "poll"
        /\ \A i \in made :
             calls'[i].path = "poll" =>
               LET t == joined[calls'[i].guild][calls'[i].member]
               IN t = 0 \/ t >= ReadyAt - pollRecencyMs]_vars

\* guild 1 was saved with no member, then a tick made its old member known without
\* forwarding it and forwarded the member that joined
C6_Witness ==
  /\ file.kind = "json"
  /\ 1 \in DOMAIN file.data
  /\ file.data[1] = <<>>
  /\ knownMembers[1] = {1, 2}
  /\ joined[1][1] = ReadyAt - pollRecencyMs - 1
  /\ CallsFor(1, 1) = {}
  /\ \E i \in CallsFor(1, 2) : calls[i].path = "poll"

\* C7: no step removes a guild's entry from knownMembers or a member from an entry
C7_KnownMonotone ==
  [][\A g \in DOMAIN knownMembers :
       g \in DOMAIN knownMembers' /\ knownMembers[g] \subseteq knownMembers'[g]]_vars

\* entries grew at startup, by a join and up to the exit of the process
C7_Witness ==
  /\ phase = "exited"
  /\ \E g \in DOMAIN knownMembers : Cardinality(knownMembers[g]) >= 2
  /\ calls # <<>>

\* C8: at most one save is under way (a timer armed or a write in flight), it is
\* under way exactly while saveScheduled is set, and the write a timer starts holds
\* knownMembers as it is when the timer fires
C8_OneWrite ==
  [][/\ Cardinality(saveTimers') + Len(writes') <= 1
     /\ saveScheduled' <=> (Cardinality(saveTimers') + Len(writes') = 1)
     /\ Len(writes') > Len(writes) => writes' = <<Dump(knownMembers)>>]_vars

\* the first write is in flight and holds a member that joined, and asked for a
\* save, while the save of the ready handler was already scheduled
C8_Witness ==
  /\ Len(writes) = 1
  /\ file.kind = "ENOENT"
  /\ ~writeFailed
  /\ \E i \in 1..Len(calls) :
       /\ calls[i].path = "live"
       /\ calls[i].guild \in DOMAIN writes[1]
       /\ calls[i].member \in Range(writes[1][calls[i].guild])

\* C9: when the program runs (no signal has arrived), no write has failed and no save
\* is under way, the file holds every member of knownMembers (nothing more is needed for a mutation to
\* reach the file than the save its handler asked for)
C9_MutationsPersisted ==
  (/\ phase = "running"
   /\ ~atSignal.seen
   /\ ~saveScheduled
   /\ saveTimers = {}
   /\ writes = <<>>
   /\ ~writeFailed)
    => \A g \in DOMAIN knownMembers : \A m \in knownMembers[g] : InFile(g, m)

\* C10: when the process has exited after a signal, no write having failed or been
\* cut off by the exit, the file holds every member that was in knownMembers when
\* the signal arrived
C10_StoreAtExit ==
  (/\ phase = "exited"
   /\ atSignal.seen
   /\ ~writeFailed
   /\ writes = <<>>)
    => \A g \in DOMAIN atSignal.known : \A m \in atSignal.known[g] : InFile(g, m)

\* C11: a store written by save and read by load gives back knownMembers, guild by
\* guild and empty sets included: once a save has been written the file loads to
\* existed = true and the knownMembers that was written, and the run that starts
\* from that file has, after its load, the knownMembers the run before ended with
C11_RoundTrip ==
  /\ (phase # "starting" /\ ~saveScheduled)
       => LoadPersistence(file) = [existed |-> TRUE, km |-> knownMembers]
  /\ (Restarted /\ phase = "running") => knownMembers = atSignal.known

\* the second run has loaded a store of two guilds, one with an empty set
C11_Witness ==
  /\ Restarted
  /\ phase = "running"
  /\ DOMAIN knownMembers = Guilds
  /\ knownMembers[1] = {}
  /\ knownMembers[2] = Members
  /\ knownMembers = atSignal.known

\* C12: when the file is missing, unreadable, not parseable or of the wrong shape,
\* load reports existed = false and the ready handler goes on from an empty
\* knownMembers, as for a missing file: knownMembers is the baseline of the cache
C12_LoadFailsSoft ==
  [][(phase = "starting" /\ phase' = "running" /\ file.kind # "json")
       => /\ ~LoadPersistence(file).existed
          /\ knownMembers' = Baseline(NoEntries)]_vars

\* C13: startup with a corrupt store: load reports existed = false and the ready
\* handler leaves every guild with an entry made of its cached members; no tick
\* and no live event is handled before that; and when the first tick starts its
\* fetch the baseline has been written (the file is no longer the corrupt one,
\* no write having failed)
C13_StartupOrder ==
  [][/\ (phase = "starting" /\ phase' = "running" /\ file.kind = "corrupt")
          => /\ ~LoadPersistence(file).existed
             /\ knownMembers' = [g \in Guilds |-> cache[g]]
     /\ (workers' # workers \/ calls' # calls) => phase = "running"
     /\ (workers[1] = Idle /\ workers'[1] # Idle /\ ~writeFailed)
          => file.kind # "corrupt"]_vars

\* the guildMemberAdd event that a step hands to the registered handler, if any
Handled == IF phase = "running" /\ events' # events /\ events' \subseteq events
             THEN events \ events' ELSE {}

\* C14: a live event for member m of guild g is ignored exactly when m is known in
\* g or m's join timestamp is earlier than readyAt - 2000.  An ignored event adds
\* no member, requests no save, leaves lastNotified, notifyBuffer and the debounce
\* timer alone and starts no dispatch; any other event makes m known in g,
\* leaves a save requested and passes m to scheduleNotify (part_000) or to an
\* immediate dispatch (part_001)
C14_LiveGuard ==
  [][\A p \in Handled :
       LET g == p[1]
           m == p[2]
           stamp == joined[g][m]
       IN IF m \in KnownOf(knownMembers, g) \/ (stamp # 0 /\ stamp < ReadyAt - liveRecencyMs)
            THEN /\ \A h \in Guilds : KnownOf(knownMembers', h) = KnownOf(knownMembers, h)
                 /\ UNCHANGED <<saveScheduled, saveTimers, writes>>
                 /\ UNCHANGED <<lastNotified, notifyBuffer, debounceTimer, debounceTimers>>
                 /\ UNCHANGED <<calls, dispatches, sent>>
            ELSE /\ KnownOf(knownMembers', g) = KnownOf(knownMembers, g) \cup {m}
                 /\ saveScheduled'
                 /\ (saveScheduled \/ saveTimers' = saveTimers \cup {saveDelayMs})
                 /\ IF variant = "batched"
                      THEN /\ Len(calls') = Len(calls) + 1
                           /\ calls'[Len(calls')].member = m
                           /\ calls'[Len(calls')].guild = g
                           /\ calls'[Len(calls')].path = "live"
                           /\ UNCHANGED dispatches
                      ELSE /\ Len(dispatches') = Len(dispatches) + 1
                           /\ Head(dispatches'[Len(dispatches')].todo).guild = g
                           /\ Addressees(dispatches'[Len(dispatches')]) = <<m>>
                           /\ UNCHANGED calls]_vars

\* both kinds of event have been handled: a replayed join from more than 2s before
\* ready was ignored and left its member unknown, and a join exactly 2s before
\* ready was taken
C14_Witness ==
  /\ phase = "running"
  /\ events = {}
  /\ joined[1][1] = ReadyAt - liveRecencyMs - 1
  /\ joined[1][2] = ReadyAt - liveRecencyMs
  /\ cache[1] = {1, 2}
  /\ knownMembers[1] = {2}
  /\ \E i \in 1..Len(calls) : calls[i].member = 2 /\ calls[i].path = "live"

\* C15: a dispatch that fails (channel fetch gives nothing or throws, send throws)
\* changes nothing but the dispatch itself: every member of its batches stays in
\* knownMembers of its guild and keeps its lastNotified entry.  No member ever
\* leaves knownMembers and no lastNotified entry is ever removed, and a tick or a
\* live event passes a member to scheduleNotify or to an immediate dispatch only
\* if the member was not known in that guild: so after the failure no tick and
\* no live event offers the member of that guild again
C15_FailureKeepsKnown ==
  [][/\ (dispatches' # dispatches /\ Len(dispatches') <= Len(dispatches))
          => /\ UNCHANGED <<knownMembers, lastNotified, notifyBuffer, calls>>
             /\ \A i \in 1..Len(dispatches) : \A k \in 1..Len(dispatches[i].todo) :
                  LET b == dispatches[i].todo[k]
                  IN \A m \in Range(b.members) :
                       /\ m \in KnownOf(knownMembers', b.guild)
                       /\ dispatches[i].kind = "flush" => m \in DOMAIN lastNotified'
     /\ \A g \in Guilds : KnownOf(knownMembers, g) \subseteq KnownOf(knownMembers', g)
     /\ DOMAIN lastNotified \subseteq DOMAIN lastNotified'
     /\ \A j \in (Len(calls) + 1)..Len(calls') :
          calls'[j].member \notin KnownOf(knownMembers, calls'[j].guild)
     /\ (Len(dispatches') > Len(dispatches) /\ dispatches'[Len(dispatches')].kind = "instant")
          => LET b == Head(dispatches'[Len(dispatches')].todo)
             IN \A m \in Range(b.members) : m \notin KnownOf(knownMembers, b.guild)]_vars

\* the flush about a join failed (nothing was sent), the cooldown of its member has
\* run out, every event has been handled and the member was offered just once
C15_Witness ==
  /\ variant = "batched"
  /\ RealJoin(1, 2)
  /\ Len(flushed) = 1
  /\ flushed[1].batches = <<[guild |-> 1, members |-> <<2>>]>>
  /\ sent = <<>>
  /\ dispatches = <<>>
  /\ events = {}
  /\ knownMembers[1] = {1, 2}
  /\ lastNotified[2] = notifyCooldownMs
  /\ Cardinality(CallsFor(1, 2)) = 1

\* C16: when a tick compares memberCount of guild g with the known size, and since
\* the tick before a member joined g that is still unknown while nobody left g,
\* the tick goes on to fetch the roster of g; and a fetch that returns the roster
\* leaves every member of the roster known
C16_ShortCircuitMissesOnlyOffsetJoins ==
  [][\A g \in Guilds :
       /\ ( /\ sinceTick'[g] = NoChange[g]
            /\ ~sinceTick[g].left
            /\ \E m \in sinceTick[g].joins : m \in roster[g] /\ m \notin KnownOf(knownMembers, g))
            => \E w \in 1..MaxWorkers : workers'[w] = [pc |-> "fetch", at |-> g]
       /\ ( /\ \E w \in 1..MaxWorkers : workers[w] = [pc |-> "fetch", at |-> g] /\ workers'[w] # workers[w]
            /\ cache'[g] = roster[g])
            => roster[g] \subseteq KnownOf(knownMembers', g)]_vars

\* member m of guild g waits in notifyBuffer
Pending(g, m) ==
  \E k \in 1..Len(notifyBuffer) : notifyBuffer[k].guild = g /\ notifyBuffer[k].member = m

\* a flush has taken member m of guild g into one of its batches
Handed(g, m) ==
  \E k \in 1..Len(flushed) : \E j \in 1..Len(flushed[k].batches) :
    /\ flushed[k].batches[j].guild = g
    /\ m \in Range(flushed[k].batches[j].members)

\* C17: while the process keeps running, every pair in notifyBuffer is eventually
\* handed to the dispatch by a flush that leaves notifyBuffer empty; a debounce
\* timer is armed whenever notifyBuffer holds a pair
C17_EventuallyFlushed ==
  /\ [](notifyBuffer # <<>> => debounceTimers # {})
  /\ \A g \in Guilds, m \in Members :
       Pending(g, m) ~> (Handed(g, m) /\ notifyBuffer = <<>>)

\* a flush after a quiet debounce window took two accepted calls and left
\* notifyBuffer empty
C17_Witness ==
  /\ notifyBuffer = <<>>
  /\ debounceTimers = {}
  /\ \E k \in 1..Len(flushed) :
       /\ Cardinality(flushed[k].calls) = 2
       /\ flushed[k].quiet >= notifyDebounceMs
  /\ Handed(1, 1)
  /\ Handed(1, 2)

\* C18: every accepted call is either waiting in notifyBuffer or was taken by
\* exactly one flush, never both and never neither.  A flush takes the whole
\* buffer and leaves it empty in one step.  A call accepted while the dispatch of
\* an earlier flush awaits its channel fetch or send changes neither that dispatch
\* nor any flush: it waits in notifyBuffer with a debounce timer armed for
\* the full window.  No two messages of flushes are about the same member of the
\* same guild, and every such message is a batch of a flush
C18_ExactlyOneFlush ==
  [][/\ \A i \in 1..Len(calls') : calls'[i].accepted =>
          \/ (i \in Buffered' /\ FlushOf(i)' = {})
          \/ (i \notin Buffered' /\ Cardinality(FlushOf(i)') = 1)
     /\ Len(flushed') > Len(flushed) =>
          /\ notifyBuffer' = <<>>
          /\ flushed'[Len(flushed')].calls = Buffered
          /\ flushed'[Len(flushed')].batches = ByGuild(notifyBuffer)
          /\ dispatches'[Len(dispatches')].todo = ByGuild(notifyBuffer)
     /\ (dispatches # <<>> /\ Len(calls') > Len(calls)) =>
          /\ dispatches' = dispatches
          /\ flushed' = flushed
          /\ \A i \in (Len(calls) + 1)..Len(calls') : calls'[i].accepted =>
               /\ i \in Buffered'
               /\ debounceTimers' = {notifyDebounceMs}
     /\ \A k \in 1..Len(sent') : sent'[k].kind = "flush" =>
          /\ \E f \in 1..Len(flushed') : \E j \in 1..Len(flushed'[f].batches) :
               flushed'[f].batches[j] = [guild |-> sent'[k].guild, members |-> sent'[k].members]
          /\ \A l \in 1..Len(sent') :
               (l # k /\ sent'[l].kind = "flush" /\ sent'[l].guild = sent'[k].guild)
                 => Range(sent'[l].members) \cap Range(sent'[k].members) = {}]_vars

\* a call was accepted while the flush before it awaits the settling of its send: the
\* call waits in notifyBuffer, outside that flush, with its own timer
C18_Witness ==
  /\ Len(dispatches) = 1
  /\ dispatches[1].pc = "send"
  /\ Len(flushed) = 1
  /\ Len(sent) = 1
  /\ Len(notifyBuffer) = 1
  /\ notifyBuffer[1].call \notin flushed[1].calls
  /\ notifyBuffer[1].member \notin Range(sent[1].members)
  /\ debounceTimers = {notifyDebounceMs}

\* C19: at most one debounce timer is armed, it is the one whose handle
\* debounceTimer holds, and it is due when the debounce window has passed since the
\* most recent accepted call; so every flush found at least the debounce window
\* between that call and itself
C19_OneTimer ==
  /\ Cardinality(debounceTimers) <= 1
  /\ \A e \in debounceTimers :
       /\ e = debounceTimer
       /\ e + Min({sinceAccepted[x] : x \in Members}) = notifyDebounceMs
  /\ \A k \in 1..Len(flushed) : flushed[k].quiet >= notifyDebounceMs

\* a second call was accepted inside the window of the first: one timer is armed,
\* for the full window
C19_Witness ==
  /\ Len(notifyBuffer) = 2
  /\ debounceTimers = {notifyDebounceMs}
  /\ \E m \in Members : sinceAccepted[m] > 0 /\ sinceAccepted[m] < notifyDebounceMs

\* the scheduleNotify calls that a step makes
NewCalls == (Len(calls) + 1)..Len(calls')

\* C20: a scheduleNotify call dropped by the cooldown test leaves the member's
\* lastNotified entry as it was, puts nothing in notifyBuffer and removes nothing
\* from knownMembers; a step whose calls are all dropped leaves lastNotified,
\* notifyBuffer, the debounce timer and its handle unchanged, so the member's
\* cooldown still ends when it did and a pending flush is still due when it was
C20_DroppedCallChangesNothing ==
  [][/\ \A j \in NewCalls : ~calls'[j].accepted =>
          LET m == calls'[j].member
          IN /\ m \in DOMAIN lastNotified
             /\ lastNotified'[m] = lastNotified[m]
             /\ sinceAccepted'[m] = sinceAccepted[m]
             /\ j \notin Buffered'
             /\ m \in KnownOf(knownMembers', calls'[j].guild)
     /\ (NewCalls # {} /\ \A j \in NewCalls : ~calls'[j].accepted) =>
          /\ UNCHANGED <<lastNotified, notifyBuffer, debounceTimer, debounceTimers>>
          /\ UNCHANGED <<sinceAccepted, dispatches, flushed, sent>>
          /\ \A g \in Guilds : KnownOf(knownMembers, g) \subseteq KnownOf(knownMembers', g)]_vars

\* the latest call was dropped while a flush was pending: the timer still has the
\* delay it had and the member's entry still has its age
C20_Witness ==
  /\ calls # <<>>
  /\ ~calls[Len(calls)].accepted
  /\ notifyBuffer # <<>>
  /\ debounceTimers = {notifyDebounceMs - saveDelayMs}
  /\ lastNotified[calls[Len(calls)].member] = saveDelayMs

\* the guilds after g that a tick still has to fetch
LaterDue(g) ==
  {h \in Guilds : h > g /\ MemberCount(h) > Cardinality(KnownOf(knownMembers, h))}

\* C21: when the loop body of a tick ends for guild g, by a fetch that returned the
\* roster, by a failed fetch or by an exception, the guild was reconciled against
\* the roster or against the cache, or left as it was by the exception; a failed
\* fetch that leaves the cache alone reconciles against the cache.  In every case
\* the tick goes on: it awaits the fetch of the next guild whose memberCount
\* exceeds its known size, or ends when there is none, and the process keeps running
C21_TickGoesOn ==
  [][\A g \in Guilds :
       (workers[1] = [pc |-> "fetch", at |-> g] /\ workers'[1] # workers[1])
         => /\ KnownOf(knownMembers', g) \in
                 {KnownOf(knownMembers, g) \cup roster[g],
                  KnownOf(knownMembers, g) \cup cache[g],
                  KnownOf(knownMembers, g)}
            /\ (cache'[g] # roster[g] /\ calls' # calls)
                 => KnownOf(knownMembers', g) = KnownOf(knownMembers, g) \cup cache[g]
            /\ workers'[1] = IF LaterDue(g) = {} THEN Idle
                             ELSE [pc |-> "fetch", at |-> Min(LaterDue(g))]
            /\ \A h \in Guilds : h > g /\ h \notin LaterDue(g) => h \in DOMAIN knownMembers'
            /\ phase' = "running"]_vars

\* the fetch of guild 1 failed, guild 1 was reconciled against a cache that held one
\* of its two members, and the tick went on to fetch guild 2
C21_Witness ==
  /\ roster[1] = {1, 2}
  /\ cache[1] = {2}
  /\ KnownOf(knownMembers, 1) = {2}
  /\ workers[1] = [pc |-> "fetch", at |-> 2]
  /\ Len(calls) = 1
  /\ calls[1].path = "poll"
  /\ calls[1].member = 2
  /\ events = {<<1, 2>>}

\* C22: when a write fails (the file is left as it was or damaged) saveScheduled is
\* cleared and no timer and no write is started by the failure.  After a failure,
\* with no save scheduled, a step that adds a member to knownMembers or handles a
\* signal leaves a save scheduled with its 800ms timer armed; the write that a
\* timer starts holds the whole knownMembers of that moment, and every content
\* being written, failed ones included, is within knownMembers from then on
C22_FailedWriteRetriedByNextSave ==
  [][/\ (Len(writes') < Len(writes) /\ phase' = "running" /\ writeFailed'
           /\ (file' = file \/ file'.kind = "corrupt"))
          => /\ ~saveScheduled'
             /\ saveTimers' = saveTimers
             /\ writes' = <<>>
     /\ (writeFailed /\ ~saveScheduled /\ phase = "running"
           /\ ((graceMs \in exitTimers' /\ graceMs \notin exitTimers)
                 \/ (\E g \in Guilds : KnownOf(knownMembers', g) # KnownOf(knownMembers, g))))
          => /\ saveScheduled'
             /\ saveTimers' = saveTimers \cup {saveDelayMs}
     /\ (writeFailed /\ Len(writes') > Len(writes))
          => writes' = Append(writes, Dump(knownMembers))
     /\ \A i \in 1..Len(writes) : \A g \in DOMAIN writes[i] :
          Range(writes[i][g]) \subseteq KnownOf(knownMembers', g)]_vars

\* the write of the ready handler failed and left no file; a member joined after
\* that, and the write its save started is in flight with the whole knownMembers
C22_Witness ==
  /\ writeFailed
  /\ file.kind = "ENOENT"
  /\ phase = "running"
  /\ Len(writes) = 1
  /\ writes[1] = Dump(knownMembers)
  /\ RealJoin(1, 2)
  /\ 1 \in DOMAIN writes[1]
  /\ Range(writes[1][1]) = {1, 2}

\* C23: in one run of the process there is at most one scheduleNotify call for a
\* member of a guild, whatever the joins, leaves, rejoins, ticks and live events,
\* and a member that was passed to scheduleNotify for a guild is in knownMembers
\* of that guild ever after
C23_OncePerPair ==
  \A g \in Guilds, m \in Members :
    /\ Cardinality(CallsFor(g, m)) <= 1
    /\ CallsFor(g, m) # {} => m \in KnownOf(knownMembers, g)

\* member 1, in guild 1 from before startup, was forwarded by a tick, left, joined
\* again, and the event of that join has been handled: there is still one call
C23_Witness ==
  /\ 1 \in roster[1]
  /\ joined[1][1] = ReadyAt
  /\ events = {}
  /\ AllIdle
  /\ Cardinality(CallsFor(1, 1)) = 1
  /\ \A i \in CallsFor(1, 1) : calls[i].stamp = 0 /\ calls[i].path = "poll"
  /\ Len(sent) = 1

\* C24: a scheduleNotify call for member m and guild b that comes less than the
\* cooldown after a call for m was accepted for another guild is dropped: it is
\* not in notifyBuffer and in no flush, m is known in b all the same, and no
\* message of guild b lists m
C24_CooldownByMemberAlone ==
  \A i, j \in 1..Len(calls) :
    (/\ i < j
     /\ calls[i].accepted
     /\ calls[i].member = calls[j].member
     /\ calls[i].guild # calls[j].guild
     /\ calls[j].gap < notifyCooldownMs)
      => /\ ~calls[j].accepted
         /\ j \notin Buffered
         /\ FlushOf(j) = {}
         /\ calls[j].member \in KnownOf(knownMembers, calls[j].guild)
         /\ \A k \in 1..Len(sent) :
              sent[k].guild = calls[j].guild => calls[j].member \notin Range(sent[k].members)

\* member 1 was forwarded and announced for guild 1, joined guild 2 inside the
\* cooldown and was dropped there; the cooldown has run out and nothing is pending
C24_Witness ==
  /\ variant = "batched"
  /\ RealJoin(2, 1)
  /\ Len(calls) = 2
  /\ calls[1].guild = 1 /\ calls[1].member = 1 /\ calls[1].accepted
  /\ calls[2].guild = 2 /\ calls[2].member = 1 /\ ~calls[2].accepted
  /\ 1 \in KnownOf(knownMembers, 2)
  /\ Len(sent) = 1
  /\ notifyBuffer = <<>>
  /\ dispatches = <<>>
  /\ debounceTimers = {}
  /\ events = {}
  /\ lastNotified[1] = notifyCooldownMs

\* the accepted calls still waiting in notifyBuffer that were made before the first
\* signal arrived (their member was in knownMembers when it arrived)
PendingAtSignal ==
  {i \in Buffered : calls[i].member \in KnownOf(atSignal.known, calls[i].guild)}

\* C25: when the process has exited after a signal, no write having failed or been
\* cut off by the exit, every pair that was accepted before the signal and is still
\* in notifyBuffer has reached no flush, its member is in knownMembers, and its
\* member is in the file the next run will load
C25_PendingLostButStored ==
  (/\ phase = "exited"
   /\ atSignal.seen
   /\ ~writeFailed
   /\ writes = <<>>)
    => \A i \in PendingAtSignal :
         /\ FlushOf(i) = {}
         /\ calls[i].member \in KnownOf(knownMembers, calls[i].guild)
         /\ InFile(calls[i].guild, calls[i].member)

====
